---------------------------- MODULE Spec2Model ----------------------------
(***************************************************************************)
(* A model of pixl-json-stream (src/json-stream.js, the class exported     *)
(* last, lines 111-227): the 'data' handler that frames an input stream    *)
(* into delimiter-bounded records and classifies them, the 'end' handler   *)
(* and write().                                                            *)
(*                                                                         *)
(* Text is a sequence of one-character strings over Chars.  JSON.parse and *)
(* JSON.stringify are modelled on the JSON documents that can be written   *)
(* with these characters: an empty object and the number 0, with JSON      *)
(* whitespace around them.                                                 *)
(***************************************************************************)
EXTENDS Integers, Sequences, FiniteSets, TLC

\* ------------------------------------------------------------------ bounds

\* The longest total input (all chunks concatenated) the model delivers.
MaxInput == 5
\* The longest single chunk.
MaxChunkLen == 4
\* A small value of maxLineLength, so that truncation happens within MaxInput.
SmallLineLength == 2
\* The most write() calls in one behaviour.
MaxWrites == 2
\* The longest input that precedes the written text on a looped-back stream.
MaxNoise == 1
\* The most 'error' events of the streams in a behaviour with errors.
MaxFaults == 2
\* The most characters read, and the most calls of write(), in a behaviour
\* that interleaves reads, writes and errors.
MaxDuplexInput == 2
MaxDuplexWrites == 1
\* The most characters read in a behaviour with a custom recordRegExp.
MaxPatternInput == 3
\* The most characters read in a behaviour with instrumentation.
MaxMeasuredInput == 3
\* A value of maxLineLength below the length of the delimiter "\r\n".
TinyLineLength == 1
\* The most characters read in a behaviour with that value.
MaxFramedInput == 4

\* ------------------------------------------------------------- text basics

CR == "\r"
LF == "\n"
\* The characters of the model: braces, a digit, and the two line characters.
Chars == {"{", "}", "0", CR, LF}
\* The characters the input stream delivers. A lone "}" is a plain record, as
\* a lone "0" is under the default pattern.
InputChars == {"{", "}", CR, LF}
\* Those of Chars that the regular expression class \s (and JSON) treats as whitespace.
Whitespace == {CR, LF}

\* All texts of length 0..n over chars.
TextsOver(chars, n) ==
    UNION {[1..k -> chars] : k \in 0..n}

\* All texts of length 0..n over InputChars.
TextsUpTo(n) ==
    TextsOver(InputChars, n)

\* String.prototype.substring(start): a negative start counts as 0.
Substring(s, start) ==
    SubSeq(s, (IF start < 0 THEN 0 ELSE start) + 1, Len(s))

\* String.prototype.indexOf(sep), 1-based, 0 when sep does not occur.
IndexOf(s, sep) ==
    LET hits == {i \in 1..(Len(s) - Len(sep) + 1) : SubSeq(s, i, i + Len(sep) - 1) = sep}
    IN  IF hits = {} THEN 0 ELSE CHOOSE i \in hits : \A j \in hits : i <= j

RECURSIVE SplitFrom(_, _)
SplitFrom(s, sep) ==
    LET i == IndexOf(s, sep)
    IN  IF i = 0
        THEN <<s>>
        ELSE <<SubSeq(s, 1, i - 1)>> \o SplitFrom(SubSeq(s, i + Len(sep), Len(s)), sep)

\* String.prototype.split(sep) for a non-empty literal separator.
Split(s, sep) ==
    SplitFrom(s, sep)

\* ------------------------------------------------------------- JSON codec

\* The JSON values of the model.
EmptyObject == "object"
Zero == "zero"
JSONValues == {EmptyObject, Zero}

RECURSIVE TrimLeft(_)
TrimLeft(s) ==
    IF s # <<>> /\ Head(s) \in Whitespace THEN TrimLeft(Tail(s)) ELSE s

RECURSIVE TrimRight(_)
TrimRight(s) ==
    IF s # <<>> /\ s[Len(s)] \in Whitespace THEN TrimRight(SubSeq(s, 1, Len(s) - 1)) ELSE s

\* JSON.parse: [ok |-> TRUE, value |-> v], or [ok |-> FALSE] where it throws.
JSONParse(text) ==
    LET t == TrimRight(TrimLeft(text))
    IN  IF t = <<"0">>
        THEN [ok |-> TRUE, value |-> Zero]
        ELSE IF Len(t) >= 2 /\ t[1] = "{" /\ t[Len(t)] = "}"
                /\ \A i \in 2..(Len(t) - 1) : t[i] \in Whitespace
        THEN [ok |-> TRUE, value |-> EmptyObject]
        ELSE [ok |-> FALSE]

\* A value that JSON.stringify cannot serialize (an object that contains itself).
Circular == "circular"

\* JSON.stringify throws.
Throws(v) ==
    v = Circular

\* JSON.stringify, where it does not throw.
JSONStringify(v) ==
    IF v = EmptyObject THEN <<"{", "}">> ELSE <<"0">>

\* `if (json)`: the decoded value is truthy.
Truthy(v) ==
    v # Zero

\* ---------------------------------------------------------- configuration

\* recordRegExp: the default /^\s*\{/ .
DefaultPattern == "^\\s*\\{"
\* recordRegExp of the first class of the file, /\S/ , as a custom pattern.
NonSpacePattern == "\\S"

\* record.match(/\S/)
HasNonSpace(record) ==
    \E i \in 1..Len(record) : record[i] \notin Whitespace

\* record.match(recordRegExp)
Matches(record, pattern) ==
    IF pattern = DefaultPattern
    THEN LET t == TrimLeft(record) IN t # <<>> /\ Head(t) = "{"
    ELSE HasNonSpace(record)

\* maxLineLength: 1024 * 1024
DefaultMaxLineLength == 1048576

\* os.EOL is "\n" or "\r\n"; EOL is a string the application may set.
EOLs == {<<LF>>, <<CR, LF>>}

\* ------------------------------------------------------------------- state

VARIABLES
    EOL,                \* the delimiter, a non-empty text
    recordRegExp,       \* the record pattern
    preserveWhitespace, \* the whitespace-preservation flag
    maxLineLength,      \* the limit on buffer + chunk
    separate,           \* streamOut is another object than streamIn
    perf,               \* this.perf is set: instrumentation is attached
    counters,           \* the counters of the instrumentation
    buffer,             \* this.buffer: the pending partial record
    events,             \* every notification emitted so far, in emission order
    ended,              \* the input stream has signalled 'end'
    sink,               \* every streamOut.write() call so far: its text and callback
    returned,           \* what each write() call returned, in call order
    calls,              \* history: every write() call: value, callback, the sink's answer
    echoes,             \* history: every written text fed back to the 'data' handler
    thrown,             \* history: the values for which write() threw
    faults,             \* history: every 'error' event of the two streams
    attachedAt,         \* history: the passes and calls that preceded setPerf()
    input,              \* history: all chunks received so far, concatenated
    truncated,          \* history: line 142 has discarded characters at least once
    passes              \* history: every pass of the record loop, in order

config == <<EOL, recordRegExp, preserveWhitespace, maxLineLength, separate>>
reader == <<buffer, events, ended, input, truncated, passes>>
writer == <<sink, returned, calls, echoes, thrown>>
meter == <<perf, counters, attachedAt>>
vars == <<config, reader, writer, meter, faults>>

RECURSIVE Sum(_)
\* The sum of a sequence of numbers.
Sum(ns) ==
    IF ns = <<>> THEN 0 ELSE Head(ns) + Sum(Tail(ns))

\* The counters before anything was counted.
NoCounts ==
    [msgs_read |-> 0, bytes_read |-> 0,
     msgs_written |-> 0, bytes_written |-> 0, write_buffer |-> 0]

\* ------------------------------------------------------- the notifications

JsonEvent(v) == [type |-> "json", value |-> v]
TextEvent(t) == [type |-> "text", text |-> t]
\* emit('error', new Error("JSON Parse Error: ..."), record)
ParseErrorEvent(r) == [type |-> "error", record |-> r]
EndEvent == [type |-> "end"]

\* ------------------------------------------------------ the 'data' handler

\* A variant of line 142 that keeps the first max characters of data.
TruncateKeepingStart(data, max) ==
    IF Len(data) > max THEN SubSeq(data, 1, max) ELSE data

\* Line 142: keep the last max characters of data.
Truncate(data, max) ==
    IF Len(data) > max THEN Substring(data, Len(data) - max) ELSE data

\* A variant of lines 140-144 that splits the chunk alone.
JoinedWithoutBuffer(buf, chunk, max) ==
    chunk

\* Lines 140-144: the text that is split. An empty buffer is falsy, and the
\* chunk is then taken as it is.
Joined(buf, chunk, max) ==
    IF buf # <<>> THEN Truncate(buf \o chunk, max) ELSE chunk

\* Line 142 discards characters in this call.
Truncates(buf, chunk, max) ==
    buf # <<>> /\ Len(buf \o chunk) > max

\* A variant of line 150 that looks at the last character only (as line 49).
EndsWithLastCharOfEOL(data, eol) ==
    Substring(data, Len(data) - 1) = <<eol[Len(eol)]>>

\* Line 150: data.substring(data.length - EOL.length) != EOL, negated.
EndsWithEOL(data, eol) ==
    Substring(data, Len(data) - Len(eol)) = eol

\* Lines 146-152: the records the loop visits.
Records(data, eol) ==
    LET all == Split(data, eol)
    IN  IF EndsWithEOL(data, eol) THEN all ELSE SubSeq(all, 1, Len(all) - 1)

\* Lines 143, 150-152: the pending buffer after the call.
Pending(data, eol) ==
    LET all == Split(data, eol)
    IN  IF EndsWithEOL(data, eol) THEN <<>> ELSE all[Len(all)]

\* Lines 180-181: the text event of a plain record, idx counted from 1.
TextOf(record, idx, len, eol) ==
    LET text == record \o (IF idx < len THEN eol ELSE <<>>)
    IN  IF Len(text) > 0 THEN <<TextEvent(text)>> ELSE <<>>

\* Lines 159-176: a record that matches the pattern.
Decode(record) ==
    LET p == JSONParse(record)
    IN  IF ~p.ok THEN <<ParseErrorEvent(record)>>
        ELSE IF Truthy(p.value) THEN <<JsonEvent(p.value)>>
        ELSE <<>>

\* Lines 158-182: what one pass of the loop emits, idx counted from 1.
EmitsOf(record, idx, len, eol, pattern, pw) ==
    IF Matches(record, pattern) THEN Decode(record)
    ELSE IF pw \/ HasNonSpace(record) THEN TextOf(record, idx, len, eol)
    ELSE <<>>

\* A variant of lines 157-183 that visits the records from the last to the first.
LoopBackwards(records, eol, pattern, pw) ==
    [idx \in 1..Len(records) |->
        EmitsOf(records[Len(records) + 1 - idx], Len(records) + 1 - idx, Len(records),
                eol, pattern, pw)]

\* A variant of lines 157-183 in which a record that fails to parse ends the loop.
LoopEndingAtError(records, eol, pattern, pw) ==
    [idx \in 1..Len(records) |->
        IF \E k \in 1..(idx - 1) :
              Matches(records[k], pattern) /\ ~JSONParse(records[k]).ok
        THEN <<>>
        ELSE EmitsOf(records[idx], idx, Len(records), eol, pattern, pw)]

\* Lines 157-183: the loop, as the emissions of each pass in order.
Loop(records, eol, pattern, pw) ==
    [idx \in 1..Len(records) |->
        EmitsOf(records[idx], idx, Len(records), eol, pattern, pw)]

\* Lines 167-171: what the passes of one call add to the counters
\* json_stream_msgs_read and json_stream_bytes_read: every record that
\* matches the pattern counts, after the try and catch.
ReadCounts(records, eol, pattern) ==
    LET matched == SelectSeq(records, LAMBDA r : Matches(r, pattern))
        lengths == [i \in 1..Len(matched) |-> Len(matched[i]) + Len(eol)]
    IN  [msgs |-> Len(matched), bytes |-> Sum(lengths)]

RECURSIVE Flatten(_)
Flatten(ss) ==
    IF ss = <<>> THEN <<>> ELSE Head(ss) \o Flatten(Tail(ss))

\* Lines 139-185: one call of the handler on a pending buffer and a chunk.
OnData(buf, chunk, eol, pattern, pw, max) ==
    LET data == Joined(buf, chunk, max)
        records == Records(data, eol)
        emits == Loop(records, eol, pattern, pw)
    IN  [ data      |-> data,
          counts    |-> ReadCounts(records, eol, pattern),
          truncated |-> Truncates(buf, chunk, max),
          closed    |-> EndsWithEOL(data, eol),
          records   |-> records,
          emits     |-> emits,
          events    |-> Flatten(emits),
          buffer    |-> Pending(data, eol) ]

\* The passes of the loop in one call: the record visited, its place idx of
\* len in the call's records, whether the split text ended with the delimiter
\* (closed), and what the pass emitted.
Passes(call) ==
    [idx \in 1..Len(call.records) |->
        [record |-> call.records[idx],
         idx    |-> idx,
         len    |-> Len(call.records),
         closed |-> call.closed,
         emits  |-> call.emits[idx]]]

\* ------------------------------------------------------------- the actions

\* Lines 113-130: the instance after new JSONStream(stream_in, stream_out)
\* and the assignments of the configuration properties. streams says
\* whether stream_out may be another object than stream_in.
Construct(streams, patterns, limits) ==
    /\ EOL \in EOLs
    /\ recordRegExp \in patterns
    /\ separate \in streams
    /\ perf = FALSE
    /\ counters = NoCounts
    /\ attachedAt = [passes |-> 0, calls |-> 0]
    /\ thrown = <<>>
    /\ faults = <<>>
    /\ preserveWhitespace \in BOOLEAN
    /\ maxLineLength \in limits
    /\ buffer = <<>>
    /\ events = <<>>
    /\ ended = FALSE
    /\ sink = <<>>
    /\ returned = <<>>
    /\ calls = <<>>
    /\ echoes = <<>>
    /\ input = <<>>
    /\ truncated = FALSE
    /\ passes = <<>>

\* One stream in both directions, the default pattern.
Init ==
    Construct({FALSE}, {DefaultPattern}, {SmallLineLength, DefaultMaxLineLength})

\* setPerf(perf) with an instrumentation object (line 132).
SetPerf ==
    /\ ~perf
    /\ perf' = TRUE
    /\ attachedAt' = [passes |-> Len(passes), calls |-> Len(calls)]
    /\ UNCHANGED <<config, reader, writer, counters, faults>>

\* Lines 167-171: the counters after a call, with or without instrumentation.
Metered(ctr, counts, attached) ==
    IF attached
    THEN [ctr EXCEPT !.msgs_read = @ + counts.msgs, !.bytes_read = @ + counts.bytes]
    ELSE ctr

\* streamIn emits 'data' with a chunk (lines 139-185).
Data(chunk) ==
    /\ ~ended
    /\ Len(input) + Len(chunk) <= MaxInput
    /\ LET call == OnData(buffer, chunk, EOL, recordRegExp, preserveWhitespace,
                          maxLineLength)
       IN  /\ buffer' = call.buffer
           /\ events' = events \o call.events
           /\ truncated' = (truncated \/ call.truncated)
           /\ passes' = passes \o Passes(call)
           /\ counters' = Metered(counters, call.counts, perf)
    /\ input' = input \o chunk
    /\ UNCHANGED <<config, ended, writer, perf, attachedAt, faults>>

\* A variant of lines 205-207 that handles the pending buffer as a last record.
EndFlushingBuffer ==
    /\ ~ended
    /\ ended' = TRUE
    /\ events' = events
                  \o EmitsOf(buffer, 1, 1, EOL, recordRegExp, preserveWhitespace)
                  \o <<EndEvent>>
    /\ UNCHANGED <<config, buffer, input, truncated, passes, writer, meter, faults>>

\* streamIn emits 'end' (lines 205-207).
End ==
    /\ ~ended
    /\ ended' = TRUE
    /\ events' = Append(events, EndEvent)
    /\ UNCHANGED <<config, buffer, input, truncated, passes, writer, meter, faults>>

Next ==
    \/ \E chunk \in TextsUpTo(MaxChunkLen) : Data(chunk)
    \/ End

\* The reader: any chunks, then the end of the input.
Spec == Init /\ [][Next]_vars

\* ------------------------------------------------------------------ write()

\* The completion callbacks a caller may pass: none, or a function.
Callbacks == {"undefined", "callback"}

\* A variant of line 220 that always ends the text with "\n" (as line 91).
FramedWithLF(v, eol) ==
    JSONStringify(v) \o <<LF>>

\* Line 220: the text handed to streamOut.write().
Framed(v, eol) ==
    JSONStringify(v) \o eol

\* A variant of line 220 that does not pass the callback on.
SinkCallWithoutCallback(v, callback, eol) ==
    [text |-> Framed(v, eol), callback |-> "undefined"]

\* Line 220: the arguments of streamOut.write().
SinkCall(v, callback, eol) ==
    [text |-> Framed(v, eol), callback |-> callback]

\* A variant of lines 210-225 that counts the message before it is
\* serialized.
OnWriteCountingFirst(v, callback, accepted, eol, attached, ctr) ==
    LET counted == IF attached THEN [ctr EXCEPT !.msgs_written = @ + 1] ELSE ctr
    IN  IF Throws(v)
        THEN [threw |-> TRUE, written |-> <<>>, returned |-> <<>>, counters |-> counted]
        ELSE [threw    |-> FALSE,
              written  |-> <<[text |-> JSONStringify(v) \o eol, callback |-> callback]>>,
              returned |-> <<accepted>>,
              counters |-> counted]

\* A variant of line 217 that counts the serialized value only.
BytesWrittenWithoutEOL(data, eol) ==
    Len(data)

\* Line 217: what a call adds to json_stream_bytes_written.
BytesWritten(data, eol) ==
    Len(data) + Len(eol)

\* Lines 214-223: the counters after a call that wrote, with or without
\* instrumentation.
WriteMetered(ctr, v, accepted, eol, attached) ==
    IF attached
    THEN [ctr EXCEPT !.msgs_written = @ + 1,
                     !.bytes_written = @ + BytesWritten(JSONStringify(v), eol),
                     !.write_buffer = @ + (IF accepted THEN 0 ELSE 1)]
    ELSE ctr

\* Lines 210-225: one call of write(). When JSON.stringify throws (line
\* 213) the call ends there: nothing is written, counted or returned.
OnWrite(v, callback, accepted, eol, attached, ctr) ==
    IF Throws(v)
    THEN [threw |-> TRUE, written |-> <<>>, returned |-> <<>>, counters |-> ctr]
    ELSE [threw    |-> FALSE,
          written  |-> <<SinkCall(v, callback, eol)>>,
          returned |-> <<accepted>>,
          counters |-> WriteMetered(ctr, v, accepted, eol, attached)]

\* A variant of lines 210-225 that also notifies the listeners of 'json' of
\* the value written.
WriteEmitting(v, callback, accepted) ==
    /\ Len(calls) + Len(thrown) < MaxWrites
    /\ ~Throws(v)
    /\ sink' = Append(sink, SinkCall(v, callback, EOL))
    /\ returned' = Append(returned, accepted)
    /\ calls' = Append(calls, [value |-> v, callback |-> callback, accepted |-> accepted])
    /\ events' = Append(events, JsonEvent(v))
    /\ counters' = WriteMetered(counters, v, accepted, EOL, perf)
    /\ UNCHANGED <<config, buffer, ended, input, truncated, passes, echoes, thrown,
                   perf, attachedAt, faults>>

\* write(json, callback) (lines 210-225); accepted is what streamOut.write()
\* answers.
Write(v, callback, accepted) ==
    /\ Len(calls) + Len(thrown) < MaxWrites
    /\ LET call == OnWrite(v, callback, accepted, EOL, perf, counters)
       IN  /\ sink' = sink \o call.written
           /\ returned' = returned \o call.returned
           /\ counters' = call.counters
           /\ calls' = IF call.threw THEN calls
                       ELSE Append(calls, [value |-> v, callback |-> callback,
                                           accepted |-> accepted])
           /\ thrown' = IF call.threw THEN Append(thrown, v) ELSE thrown
    /\ UNCHANGED <<config, reader, echoes, perf, attachedAt, faults>>

\* The peer end of the stream hands the i-th written text, whole, to the
\* 'data' handler of an instance with the same configuration (lines 139-185).
Echo(i) ==
    /\ i \in 1..Len(sink)
    /\ ~ended
    /\ Len(input) + Len(sink[i].text) <= MaxInput
    /\ LET call == OnData(buffer, sink[i].text, EOL, recordRegExp, preserveWhitespace,
                          maxLineLength)
       IN  /\ buffer' = call.buffer
           /\ events' = events \o call.events
           /\ truncated' = (truncated \/ call.truncated)
           /\ passes' = passes \o Passes(call)
           /\ echoes' = Append(echoes, [value   |-> calls[i].value,
                                        pending |-> buffer,
                                        events  |-> call.events])
           /\ counters' = Metered(counters, call.counts, perf)
    /\ input' = input \o sink[i].text
    /\ UNCHANGED <<config, ended, sink, returned, calls, thrown, perf, attachedAt, faults>>

\* A chunk that reaches the reader before any written text does.
Noise(chunk) ==
    /\ Len(input) + Len(chunk) <= MaxNoise
    /\ echoes = <<>>
    /\ Data(chunk)

WriteNext ==
    \/ \E v \in JSONValues, callback \in Callbacks, accepted \in BOOLEAN :
          Write(v, callback, accepted)
    \/ \E i \in 1..MaxWrites : Echo(i)
    \/ \E chunk \in TextsUpTo(MaxNoise) : Noise(chunk)
    \/ End

\* The writer, with its output looped back to the reader.
WriteSpec == Init /\ [][WriteNext]_vars

\* The values handed to write(): the serializable ones and one that is not.
WriteValues ==
    JSONValues \cup {Circular}

WritePerfNext ==
    \/ SetPerf
    \/ \E v \in WriteValues, callback \in Callbacks, accepted \in BOOLEAN :
          Write(v, callback, accepted)

\* The writer with instrumentation, and values that cannot be serialized.
WritePerfSpec == Init /\ [][WritePerfNext]_vars

\* The messages of the Error objects that a stream emits with 'error'.
Errors ==
    {"EPIPE"}

InputPrefix == "Error in input stream: "
OutputPrefix == "Error in output stream: "

\* A variant of lines 187-202 with one handler for the two streams.
NotificationUnmarked(stream, err, sep) ==
    IF sep
    THEN [type |-> "error", message |-> <<InputPrefix, err>>]
    ELSE [type |-> "error", error |-> err]

\* Lines 187-202: what the handler of a stream's 'error' event emits: with
\* separate streams a string, the prefix of the stream and err.message
\* (lines 191, 194); with one stream the error object itself (line 200).
Notification(stream, err, sep) ==
    IF sep
    THEN [type    |-> "error",
          message |-> <<IF stream = "in" THEN InputPrefix ELSE OutputPrefix, err>>]
    ELSE [type |-> "error", error |-> err]

\* streamIn emits 'error' (lines 190-192, or 199-201 when it is also
\* streamOut).
InputError(err) ==
    /\ Len(faults) < MaxFaults
    /\ faults' = Append(faults, [stream |-> "in", err |-> err])
    /\ events' = Append(events, Notification("in", err, separate))
    /\ UNCHANGED <<config, buffer, ended, input, truncated, passes, writer, meter>>

\* streamOut, another object than streamIn, emits 'error' (lines 193-195).
OutputError(err) ==
    /\ separate
    /\ Len(faults) < MaxFaults
    /\ faults' = Append(faults, [stream |-> "out", err |-> err])
    /\ events' = Append(events, Notification("out", err, separate))
    /\ UNCHANGED <<config, buffer, ended, input, truncated, passes, writer, meter>>

\* streamIn emits 'data' with a chunk, while writes and errors go on.
Transfer(chunk) ==
    /\ Len(input) + Len(chunk) <= MaxDuplexInput
    /\ Data(chunk)

\* write(json, callback) to a sink that accepts it, while reads and errors
\* go on.
Send(v) ==
    /\ Len(calls) < MaxDuplexWrites
    /\ Write(v, "callback", TRUE)

DuplexInit ==
    Construct(BOOLEAN, {DefaultPattern}, {DefaultMaxLineLength})

DuplexNext ==
    \/ \E chunk \in TextsUpTo(MaxDuplexInput) : Transfer(chunk)
    \/ End
    \/ \E err \in Errors : InputError(err)
    \/ \E err \in Errors : OutputError(err)
    \/ \E v \in JSONValues : Send(v)

\* Reads, writes and stream errors interleaved, on one stream or on two.
DuplexSpec == DuplexInit /\ [][DuplexNext]_vars

\* streamIn emits 'data' with a chunk that may hold a number.
Scan(chunk) ==
    /\ Len(input) + Len(chunk) <= MaxPatternInput
    /\ Data(chunk)

\* The application has or has not set recordRegExp to /\S/.
PatternInit ==
    Construct({FALSE}, {DefaultPattern, NonSpacePattern}, {DefaultMaxLineLength})

PatternNext ==
    \/ \E chunk \in TextsOver(Chars, MaxPatternInput) : Scan(chunk)
    \/ End

\* The reader under the default and under a custom record pattern.
PatternSpec == PatternInit /\ [][PatternNext]_vars

\* streamIn emits 'data' with a chunk, with or without instrumentation.
Measured(chunk) ==
    /\ Len(input) + Len(chunk) <= MaxMeasuredInput
    /\ Data(chunk)

ReadPerfNext ==
    \/ SetPerf
    \/ \E chunk \in TextsUpTo(MaxMeasuredInput) : Measured(chunk)
    \/ End

\* The reader with instrumentation.
ReadPerfSpec == Init /\ [][ReadPerfNext]_vars

\* streamIn emits 'data' with a chunk, under any of the three limits.
Framing(chunk) ==
    /\ Len(input) + Len(chunk) <= MaxFramedInput
    /\ Data(chunk)

\* The application has set maxLineLength to a tiny or a small value, or not.
FramingInit ==
    Construct({FALSE}, {DefaultPattern},
              {TinyLineLength, SmallLineLength, DefaultMaxLineLength})

FramingNext ==
    \/ \E chunk \in TextsUpTo(MaxChunkLen) : Framing(chunk)
    \/ End

\* The reader under limits below, at and above the delimiter length.
FramingSpec == FramingInit /\ [][FramingNext]_vars

\* ------------------------------------------------------- helpers of claims

Front(s) ==
    SubSeq(s, 1, Len(s) - 1)

\* The events of evs whose type is in types, in order.
OfTypes(evs, types) ==
    SelectSeq(evs, LAMBDA e : e.type \in types)

\* The records of a sequence of passes.
RecordsOf(ps) ==
    [i \in 1..Len(ps) |-> ps[i].record]

\* The pass visits the empty element that split() yields after a final delimiter.
IsTail(p) ==
    p.closed /\ p.idx = p.len

\* The candidate records of a sequence of passes: the records visited, but
\* for the element after a final delimiter.
Candidates(ps) ==
    RecordsOf(SelectSeq(ps, LAMBDA p : ~IsTail(p)))

\* The whole input delivered as a single chunk to a new instance.
Whole ==
    OnData(<<>>, input, EOL, recordRegExp, preserveWhitespace, maxLineLength)

\* The complete (delimiter-terminated) records of the input: all elements of
\* its split but the last.
CompleteRecords ==
    Front(Split(input, EOL))

\* --------------------------------------------------------------------- C1

C2_RoundTrip ==
    \A i \in 1..Len(echoes) :
        echoes[i].pending = <<>> => echoes[i].events = <<JsonEvent(echoes[i].value)>>

\* C2 (amended): the same for every value v that is an object, whose
\* serialization starts with "{".
C2_RoundTripOfObjects ==
    \A i \in 1..Len(echoes) :
        (echoes[i].pending = <<>> /\ echoes[i].value = EmptyObject)
            => echoes[i].events = <<JsonEvent(echoes[i].value)>>

\* An object was written with the two-character delimiter and fed back.
C2_Witness ==
    \E i \in 1..Len(echoes) :
        /\ echoes[i].pending = <<>>
        /\ echoes[i].value = EmptyObject
        /\ EOL = <<CR, LF>>

\* -------------------------------------------------------------------- C10

\* The text of v followed by the delimiter, written out.
ExpectedText(v, eol) ==
    (IF v = EmptyObject THEN <<"{", "}">> ELSE <<"0">>) \o eol

\* C10: every write() call has made exactly one streamOut.write() call, with
\* the serialized value immediately followed by the delimiter and with the
\* caller's callback, and has returned what that call returned; nothing is
\* held back.
C10_WriteFraming ==
    /\ Len(sink) = Len(calls)
    /\ Len(returned) = Len(calls)
    /\ \A i \in 1..Len(calls) :
          /\ sink[i].text = ExpectedText(calls[i].value, EOL)
          /\ sink[i].callback = calls[i].callback
          /\ returned[i] = calls[i].accepted

\* Two calls, one with a callback and a sink that answers false, one
\* without a callback and a sink that answers true.
C10_Witness ==
    /\ Len(calls) = 2
    /\ calls[1].value = EmptyObject /\ calls[1].callback = "callback" /\ ~calls[1].accepted
    /\ calls[2].callback = "undefined" /\ calls[2].accepted
    /\ sink[1].text = <<"{", "}", LF>>

\* --------------------------------------------------------------------- C3

\* C3 (as claimed): after every call of the data handler the pending buffer
\* is at most maxLineLength characters long.
C3_PendingBufferBounded ==
    Len(buffer) <= maxLineLength

\* --------------------------------------------------------------------- C4

RECURSIVE Join(_, _)
\* The elements of a sequence of texts, with sep between them.
Join(texts, sep) ==
    IF texts = <<>> THEN <<>>
    ELSE IF Len(texts) = 1 THEN texts[1]
    ELSE texts[1] \o sep \o Join(Tail(texts), sep)

\* The text that a call split, rebuilt from what the call left behind: the
\* records its passes visited and, unless the text ended with the delimiter,
\* the pending buffer.
SplitText(new, pending, eol) ==
    IF new # <<>> /\ new[1].closed
    THEN Join(RecordsOf(new), eol)
    ELSE Join(RecordsOf(new) \o <<pending>>, eol)

\* C4: in every call with a non-empty pending buffer in which buffer + chunk
\* is longer than maxLineLength, the text that is split is exactly the last
\* maxLineLength characters of buffer + chunk, and every record the call
\* visits and the pending buffer it leaves are at most maxLineLength long.
C4_TruncationKeepsSuffix ==
    [][LET chunk  == SubSeq(input', Len(input) + 1, Len(input'))
           joined == buffer \o chunk
           new    == SubSeq(passes', Len(passes) + 1, Len(passes'))
       IN  (input' # input /\ buffer # <<>> /\ Len(joined) > maxLineLength) =>
              /\ SplitText(new, buffer', EOL)
                   = SubSeq(joined, Len(joined) - maxLineLength + 1, Len(joined))
              /\ \A i \in 1..Len(new) : Len(new[i].record) <= maxLineLength
              /\ Len(buffer') <= maxLineLength
      ]_vars

\* A call discarded characters of a record it then visited (the records
\* visited are no longer the complete records of the input), and left a
\* partial record pending.
C4_Witness ==
    /\ truncated
    /\ Candidates(passes) # <<>>
    /\ Candidates(passes) # CompleteRecords
    /\ buffer # <<>>

\* --------------------------------------------------------------------- C5

\* The pass visited a record that matches the pattern and is not valid JSON.
IsBad(p) ==
    Matches(p.record, recordRegExp) /\ ~JSONParse(p.record).ok

\* Passes i < j belong to the same call of the handler.
SameCall(i, j) ==
    passes[j].idx - passes[i].idx = j - i

\* C5: a record that matches the pattern and fails to parse yields the one
\* notification 'error' with the raw record and no 'json'; the loop goes on
\* to the next record of the call; every later pass, of the same call or a
\* later one, emits what it emits with the bad record taken out of its call;
\* and the pending buffer is the trailing partial record of the input, as
\* without the failure (while nothing has been truncated).
C5_DecodeErrorIsolation ==
    \A i \in 1..Len(passes) :
        IsBad(passes[i]) =>
            /\ passes[i].emits = <<ParseErrorEvent(passes[i].record)>>
            /\ passes[i].idx < passes[i].len =>
                  /\ i < Len(passes)
                  /\ passes[i + 1].idx = passes[i].idx + 1
                  /\ passes[i + 1].len = passes[i].len
            /\ \A j \in (i + 1)..Len(passes) :
                  LET d == IF SameCall(i, j) THEN 1 ELSE 0
                  IN  passes[j].emits =
                          EmitsOf(passes[j].record, passes[j].idx - d, passes[j].len - d,
                                  EOL, recordRegExp, preserveWhitespace)
            /\ ~truncated =>
                  LET all == Split(input, EOL) IN buffer = all[Len(all)]

\* A bad record was followed in the same call by a record that was decoded.
C5_Witness ==
    \E i \in 1..Len(passes) : \E j \in (i + 1)..Len(passes) :
        /\ IsBad(passes[i])
        /\ passes[i].emits = <<ParseErrorEvent(passes[i].record)>>
        /\ SameCall(i, j)
        /\ passes[j].emits = <<JsonEvent(EmptyObject)>>

\* --------------------------------------------------------------------- C6

RECURSIVE TextPayloads(_)
\* The payloads of the 'text' notifications of evs, concatenated in order.
TextPayloads(evs) ==
    IF evs = <<>> THEN <<>>
    ELSE (IF Head(evs).type = "text" THEN Head(evs).text ELSE <<>>)
             \o TextPayloads(Tail(evs))

\* The input up to and including its last delimiter.
DelimitedInput ==
    LET all == Split(input, EOL)
    IN  SubSeq(input, 1, Len(input) - Len(all[Len(all)]))

\* C6 (as claimed): with whitespace preservation on, nothing truncated and
\* no record of the input matching the pattern, the payloads of the 'text'
\* notifications, concatenated, are the input up to and including its last
\* delimiter, however the input was cut into chunks.
C6_TextReconstruction ==
    (/\ preserveWhitespace
     /\ ~truncated
     /\ \A r \in {Split(input, EOL)[i] : i \in 1..Len(Split(input, EOL))} :
           ~Matches(r, recordRegExp))
        => TextPayloads(events) = DelimitedInput

\* --------------------------------------------------------------------- C7

\* C7 (as claimed): a complete record of whitespace only, the empty record
\* included, yields no 'text' notification when preserveWhitespace is false
\* and exactly one when it is true, wherever it falls within a chunk.
C7_WhitespacePolicy ==
    \A i \in 1..Len(passes) :
        (~IsTail(passes[i]) /\ ~HasNonSpace(passes[i].record)) =>
            Len(OfTypes(passes[i].emits, {"text"})) = (IF preserveWhitespace THEN 1 ELSE 0)

\* --------------------------------------------------------------------- C8

RECURSIVE EmitsOfPasses(_)
\* What the passes emitted, concatenated in the order of the passes.
EmitsOfPasses(ps) ==
    IF ps = <<>> THEN <<>> ELSE Head(ps).emits \o EmitsOfPasses(Tail(ps))

RECURSIVE OccurInOrder(_, _)
\* The records occur in the input from position from on, in this order and
\* without overlap, each followed by the delimiter.
OccurInOrder(records, from) ==
    \/ records = <<>>
    \/ LET framed == Head(records) \o EOL
       IN  \E p \in from..(Len(input) - Len(framed) + 1) :
              /\ SubSeq(input, p, p + Len(framed) - 1) = framed
              /\ OccurInOrder(Tail(records), p + Len(framed))

\* The notification comes from the record: its decoded value, the record as
\* the offending text, or the record as text with or without the delimiter.
ComesFrom(e, record) ==
    \/ e.type = "json" /\ JSONParse(record) = [ok |-> TRUE, value |-> e.value]
    \/ e.type = "error" /\ e.record = record /\ ~JSONParse(record).ok
    \/ e.type = "text" /\ e.text \in {record, record \o EOL}

\* C8: across any sequence of chunks, the records are visited in the order
\* in which they lie in the input; each pass emits at most one notification,
\* which comes from its record; the notifications are emitted in the order of
\* the passes; and after a decode failure every later record with a
\* non-whitespace character still has exactly one notification.
C8_Ordering ==
    /\ OccurInOrder(Candidates(passes), 1)
    /\ \A i \in 1..Len(passes) :
          /\ Len(passes[i].emits) <= 1
          /\ \A k \in 1..Len(passes[i].emits) :
                ComesFrom(passes[i].emits[k], passes[i].record)
    /\ OfTypes(events, {"json", "text", "error"}) = EmitsOfPasses(passes)
    /\ \A i \in 1..Len(passes) : \A j \in (i + 1)..Len(passes) :
          (IsBad(passes[i]) /\ HasNonSpace(passes[j].record))
              => Len(passes[j].emits) = 1

\* A decode failure in one call, then a 'json' notification in a later call,
\* in the order of their records in the input.
C8_Witness ==
    /\ Len(passes) = 4
    /\ IsBad(passes[1]) /\ IsTail(passes[2]) /\ ~SameCall(1, 3)
    /\ events = <<ParseErrorEvent(passes[1].record), JsonEvent(EmptyObject)>>
    /\ Candidates(passes) = CompleteRecords

\* --------------------------------------------------------------------- C9

\* C9: once the input has ended there is exactly one 'end' notification, it
\* is the last notification, and the notifications before it are those of
\* the passes of the record loop: nothing was emitted for the pending buffer.
\* Before the input has ended there is no 'end' notification.
C9_EndOfStream ==
    /\ ended => events = EmitsOfPasses(passes) \o <<EndEvent>>
    /\ ~ended => OfTypes(events, {"end"}) = <<>>

\* The input has ended with a partial record pending that would have been
\* reported as text, after a record was decoded.
C9_Witness ==
    /\ ended
    /\ buffer = <<"}">>
    /\ events = <<JsonEvent(EmptyObject), EndEvent>>

\* -------------------------------------------------------------------- C11

\* C11: a call of write() in which JSON.stringify throws ends by throwing to
\* its caller: it hands nothing to the sink and returns nothing, emits no
\* notification ('error' or other), and leaves the counters
\* json_stream_msgs_written, json_stream_bytes_written and
\* json_stream_write_buffer as they were.
C11_SerializeFailure ==
    [][thrown' # thrown =>
          /\ Throws(thrown'[Len(thrown')])
          /\ sink' = sink
          /\ returned' = returned
          /\ events' = events
          /\ counters' = counters
      ]_vars

\* With instrumentation attached, a value was written and counted, and
\* then write() threw for a value that cannot be serialized.
C11_Witness ==
    /\ perf
    /\ thrown # <<>>
    /\ Len(sink) = 1
    /\ counters.msgs_written = 1
    /\ attachedAt.calls = 0

\* -------------------------------------------------------------------- C12

\* The 'error' notifications of evs that come from a stream (those of the
\* decoder carry the record).
StreamErrors(evs) ==
    SelectSeq(evs, LAMBDA e : e.type = "error" /\ "record" \notin DOMAIN e)

\* The stream that a notification of separate streams is marked with.
Origin(e) ==
    CASE e.message[1] = InputPrefix -> "in"
      [] e.message[1] = OutputPrefix -> "out"
      [] OTHER -> "none"

\* C12: the 'error' notifications that come from streams are, one for one
\* and in order, the error events of the streams: with separate streams
\* each is marked with the stream (input or output) whose event it is;
\* with one stream each carries the original error. And the handling of
\* an error event emits that one notification only, leaves the pending
\* buffer as it was, ends nothing and writes nothing.
C12_StreamErrorOrigin ==
    /\ [](/\ Len(StreamErrors(events)) = Len(faults)
          /\ \A i \in 1..Len(faults) :
                LET e == StreamErrors(events)[i]
                IN  IF separate
                    THEN Origin(e) = faults[i].stream /\ e.message[2] = faults[i].err
                    ELSE e.error = faults[i].err)
    /\ [][faults' # faults =>
             /\ Len(events') = Len(events) + 1
             /\ buffer' = buffer
             /\ ended' = ended
             /\ sink' = sink
         ]_vars

\* Two separate streams have each emitted an error while a partial record
\* was pending and the input had not ended.
C12_Witness ==
    /\ separate
    /\ buffer # <<>>
    /\ ~ended
    /\ \E i, j \in 1..Len(faults) : faults[i].stream = "in" /\ faults[j].stream = "out"

\* -------------------------------------------------------------------- C19

\* The notifications of evs that the 'data' handler emits.
ReadNotifications(evs) ==
    SelectSeq(evs, LAMBDA e : \/ e.type \in {"json", "text"}
                              \/ e.type = "error" /\ "record" \in DOMAIN e)

\* C19: a call of write() leaves the pending buffer and the notifications
\* as they were; the handling of a chunk, of 'end' and of a stream error
\* leaves the sink and the values returned by write() as they were; so in
\* every interleaving the sink holds what the calls of write() alone
\* determine and the notifications of the 'data' handler are those of its
\* passes alone.
C19_ReadWriteIndependence ==
    /\ [][(calls' # calls \/ thrown' # thrown) =>
              /\ buffer' = buffer
              /\ events' = events
              /\ ended' = ended
         ]_vars
    /\ [][(input' # input \/ passes' # passes \/ ended' # ended \/ faults' # faults) =>
              /\ sink' = sink
              /\ returned' = returned
         ]_vars
    /\ [](/\ sink = [i \in 1..Len(calls) |->
                        SinkCall(calls[i].value, calls[i].callback, EOL)]
          /\ ReadNotifications(events) = EmitsOfPasses(passes))

\* A record was decoded with an error, a value was written, a stream
\* emitted an error and the input ended.
C19_Witness ==
    /\ Len(calls) = 1
    /\ ReadNotifications(events) # <<>>
    /\ faults # <<>>
    /\ ended

\* -------------------------------------------------------------------- C13

\* C13 (as claimed): under the default or a custom recordRegExp, every pass
\* on a record that matches the pattern and that JSON.parse accepts emits
\* exactly one 'json' notification, which carries the decoded value.
C13_SuccessfulDecodeNotifies ==
    \A i \in 1..Len(passes) :
        LET p == passes[i]
        IN  (Matches(p.record, recordRegExp) /\ JSONParse(p.record).ok) =>
                p.emits = <<JsonEvent(JSONParse(p.record).value)>>

\* -------------------------------------------------------------------- C15

\* The passes made since the instrumentation was attached that emitted a
\* 'json' notification.
Delivered ==
    SelectSeq(SubSeq(passes, attachedAt.passes + 1, Len(passes)),
              LAMBDA p : OfTypes(p.emits, {"json"}) # <<>>)

\* C15 (as claimed): with instrumentation attached, json_stream_msgs_read is
\* the number of 'json' notifications emitted since, and
\* json_stream_bytes_read the sum, over the records they were decoded from,
\* of record length plus delimiter length; records that fail to decode and
\* text records count for nothing.
C15_ReadCountersTrackDelivered ==
    perf =>
        /\ counters.msgs_read = Len(Delivered)
        /\ counters.bytes_read
             = Sum([i \in 1..Len(Delivered) |-> Len(Delivered[i].record) + Len(EOL)])

\* -------------------------------------------------------------------- C16

\* The calls of write() that returned, made since the instrumentation was
\* attached.
CountedCalls ==
    SubSeq(calls, attachedAt.calls + 1, Len(calls))

\* C16: with instrumentation attached, json_stream_msgs_written is the
\* number of calls of write() that returned since, json_stream_bytes_written
\* the sum of their serialized lengths plus the delimiter length, and
\* json_stream_write_buffer the number of them that the sink answered with
\* false; and every call handed to the sink the serialized value followed
\* by the delimiter and returned the answer of the sink, whatever the sink
\* answered to earlier calls.
C16_WriteCounters ==
    /\ perf =>
          /\ counters.msgs_written = Len(CountedCalls)
          /\ counters.bytes_written
               = Sum([i \in 1..Len(CountedCalls) |->
                        Len(JSONStringify(CountedCalls[i].value)) + Len(EOL)])
          /\ counters.write_buffer
               = Len(SelectSeq(CountedCalls, LAMBDA c : ~c.accepted))
    /\ Len(sink) = Len(calls)
    /\ Len(returned) = Len(calls)
    /\ \A i \in 1..Len(calls) :
          /\ sink[i].text = JSONStringify(calls[i].value) \o EOL
          /\ returned[i] = calls[i].accepted

\* With instrumentation attached from the start, the sink answered false
\* to a first call and true to a second.
C16_Witness ==
    /\ perf
    /\ attachedAt.calls = 0
    /\ Len(calls) = 2
    /\ ~calls[1].accepted
    /\ calls[2].accepted

\* -------------------------------------------------------------------- C14

\* The text holds the delimiter.
HoldsEOL(text) ==
    IndexOf(text, EOL) # 0

\* C14 (as claimed): after every call of the 'data' handler the pending
\* buffer holds no delimiter (it is empty or one partial record), and it
\* is empty when buffer + chunk ended with the delimiter.
C14_PendingDelimiterFree ==
    [][LET chunk == SubSeq(input', Len(input) + 1, Len(input'))
       IN  input' # input =>
              /\ ~HoldsEOL(buffer')
              /\ EndsWithEOL(buffer \o chunk, EOL) => buffer' = <<>>
      ]_vars

\* -------------------------------------------------------------------- C17

\* C17 (as claimed): if the complete records of the input and its trailing
\* partial record are each at most maxLineLength long, then however the
\* input was cut into chunks nothing has been discarded, and the candidate
\* records processed are the complete records of the input.
C17_TruncationOnlyHitsLongRecords ==
    (\A i \in 1..Len(Split(input, EOL)) : Len(Split(input, EOL)[i]) <= maxLineLength) =>
        /\ ~truncated
        /\ Candidates(passes) = CompleteRecords

\* -------------------------------------------------------------------- C18

\* C18: as long as nothing has been discarded, the candidate records
\* processed, each followed by the delimiter, and then the pending buffer
\* make up the input received; so a record is processed only when the
\* whole delimiter that ends it has arrived.
C18_ConservationOfInput ==
    ~truncated =>
        Flatten([i \in 1..Len(Candidates(passes)) |-> Candidates(passes)[i] \o EOL])
            \o buffer = input

\* With "\r\n" as delimiter, a record has been processed and the first
\* half of the next delimiter is pending behind a partial record.
C18_Witness ==
    /\ ~truncated
    /\ EOL = <<CR, LF>>
    /\ Candidates(passes) # <<>>
    /\ Len(buffer) = 2
    /\ buffer[2] = CR

====
